---- MODULE Spec2Model ----
(***************************************************************************)
(* ifacepicker (src/main.cpp): lists the interfaces printed by "ip a",     *)
(* asks for a selection and prints IFACE=/IPADDR= for the chosen one.      *)
(*                                                                         *)
(* Strings are sequences of one-character strings.  The unit of input is   *)
(* what one fgets call returns (the code's `line`).  size_t is modelled    *)
(* with SizeBits bits, so that the wrap-arounds of `pos - 3`,              *)
(* `find(...) - pos`, the unsigned read of the selection and               *)
(* `--interfaceIndex` are computed modulo 2^SizeBits as the code does      *)
(* modulo 2^64.                                                            *)
(***************************************************************************)
EXTENDS Integers, Sequences, FiniteSets, TLC

VARIABLES pc, argv, programName, pipe, input, eof, interfaceName,
          interfaceList, out, err, sel, exitStatus

vars == <<pc, argv, programName, pipe, input, eof, interfaceName,
          interfaceList, out, err, sel, exitStatus>>

(* ------------------------------ bounds -------------------------------- *)

\* number of lines the listing command prints at most
MaxLines == 3

\* width of size_t in the model (64 in the build)
SizeBits == 5

(* --------------------------- size_t arithmetic ------------------------ *)

SizeMod == 2 ^ SizeBits

\* std::numeric_limits<std::size_t>::max()
SizeMax == SizeMod - 1

\* std::string::npos
npos == SizeMax

\* a - b in size_t
SizeSub(a, b) == (a - b + SizeMod) % SizeMod

\* a + b in size_t
SizeAdd(a, b) == (a + b) % SizeMod

Min(a, b) == IF a < b THEN a ELSE b

(* ------------------------------ std::string --------------------------- *)

\* s.find(pat, from): the first 0-based position >= from where pat occurs
FindFrom(s, pat, from) ==
    LET hits == { i \in from .. (Len(s) - Len(pat)) :
                    SubSeq(s, i + 1, i + Len(pat)) = pat }
    IN  IF hits = {} THEN npos
        ELSE CHOOSE i \in hits : \A j \in hits : i <= j

\* s.find(pat)
Find(s, pat) == FindFrom(s, pat, 0)

\* s.substr(pos, count) for pos <= s.size(): count is clipped to the end
Substr(s, pos, count) == SubSeq(s, pos + 1, pos + Min(count, Len(s) - pos))

\* s.find_last_of('/')
FindLastOfSlash(s) ==
    LET hits == { i \in 0 .. (Len(s) - 1) : s[i + 1] = "/" }
    IN  IF hits = {} THEN npos
        ELSE CHOOSE i \in hits : \A j \in hits : j <= i

(* ------------------------------ literals ------------------------------ *)

HeaderMarker == <<":", " ", "<">>

InetMarker == <<"i", "n", "e", "t", " ">>

NoIp == <<"<", "n", "o", " ", "i", "p", " ", "a", "d", "d", "r", "e", "s", "s", ">">>

OptH == <<"-", "h">>

OptHelp == <<"-", "-", "h", "e", "l", "p">>

(* ------------------------------ inputs -------------------------------- *)

\* "1: lo: <U\n"
LineLo == <<"1", ":", " ", "l", "o", ":", " ", "<", "U", "\n">>

\* "3: : <\n": the marker sits at position 3
LineNoName == <<"3", ":", " ", ":", " ", "<", "\n">>

\* "a: <x\n": the marker sits before position 3
LineShort == <<"a", ":", " ", "<", "x", "\n">>

\* " inet 1.2/8 x\n"
LineInetA == <<" ", "i", "n", "e", "t", " ", "1", ".", "2", "/", "8", " ", "x", "\n">>

\* " inet /8\n": nothing between the marker and the slash
LineInetEmpty == <<" ", "i", "n", "e", "t", " ", "/", "8", "\n">>

\* " inet 7\n": no slash after the marker
LineInetNoSlash == <<" ", "i", "n", "e", "t", " ", "7", "\n">>

\* " inet6 ::1/128\n": neither marker
LineInet6 == <<" ", "i", "n", "e", "t", "6", " ", ":", ":", "1", "/", "1", "2", "8", "\n">>

Lines == { LineLo, LineNoName, LineShort, LineInetA, LineInetEmpty,
           LineInetNoSlash, LineInet6 }

ProgPath == <<"/", "b", "/", "p">>

ProgBare == <<"p">>

ArgX == <<"x">>

Argvs == { <<ProgPath>>, <<ProgBare, OptH>>, <<ProgPath, OptHelp>>,
           <<ProgBare, ArgX>>, <<ProgBare, OptH, ArgX>> }

\* the numbers that may stand on standard input at the prompt: the valid
\* ones and their neighbours, the largest size_t and the first number too
\* large for it, and the negative numbers around the wrap-around
NumTokens ==
    (0 .. (MaxLines + 1))
    \cup { SizeMax, SizeMax + 1 }
    \cup { -1 }
    \cup { -(SizeMod - k) : k \in 0 .. MaxLines }

Selections ==
    [kind : {"num"}, v : NumTokens]
    \cup { [kind |-> "nan", v |-> 0], [kind |-> "eof", v |-> 0] }

NoSelection == [kind |-> "none", v |-> 0]

(* ------------------------------ the parse ----------------------------- *)

\* line.substr(3, pos - 3)
ExtractName(line, pos) == Substr(line, 3, SizeSub(pos, 3))

\* pos += 5; line.substr(pos, line.find('/', pos) - pos)
ExtractAddress(line, pos) ==
    LET p == SizeAdd(pos, 5)
    IN  Substr(line, p, SizeSub(FindFrom(line, <<"/">>, p), p))

\* OuterStep with address lines recorded by the outer loop too
OuterStepRecordsInet(list, name, line) ==
    LET pos == Find(line, HeaderMarker)
        ipos == Find(line, InetMarker)
    IN  IF pos = npos
        THEN IF ipos # npos
             THEN [list |-> Append(list, <<name, ExtractAddress(line, ipos)>>),
                   name |-> name, pc |-> "outer"]
             ELSE [list |-> list, name |-> name, pc |-> "outer"]
        ELSE [list |-> list, name |-> ExtractName(line, pos), pc |-> "inner"]

\* body of the outer while loop for one line
OuterStep(list, name, line) ==
    LET pos == Find(line, HeaderMarker)
    IN  IF pos = npos
        THEN [list |-> list, name |-> name, pc |-> "outer"]
        ELSE [list |-> list, name |-> ExtractName(line, pos), pc |-> "inner"]

\* InnerStep with the new name assigned before the held one is saved
InnerStepNewName(list, name, line) ==
    LET pos == Find(line, HeaderMarker)
        ipos == Find(line, InetMarker)
    IN  IF pos # npos
        THEN [list |-> Append(list, <<ExtractName(line, pos), NoIp>>),
              name |-> ExtractName(line, pos), pc |-> "inner"]
        ELSE IF ipos # npos
        THEN [list |-> Append(list, <<name, ExtractAddress(line, ipos)>>),
              name |-> <<>>, pc |-> "outer"]
        ELSE [list |-> list, name |-> name, pc |-> "inner"]

\* InnerStep without the clear and the break after an address line
InnerStepNoBreak(list, name, line) ==
    LET pos == Find(line, HeaderMarker)
        ipos == Find(line, InetMarker)
    IN  IF pos # npos
        THEN [list |-> Append(list, <<name, NoIp>>),
              name |-> ExtractName(line, pos), pc |-> "inner"]
        ELSE IF ipos # npos
        THEN [list |-> Append(list, <<name, ExtractAddress(line, ipos)>>),
              name |-> name, pc |-> "inner"]
        ELSE [list |-> list, name |-> name, pc |-> "inner"]

\* InnerStep with the held interface written over the last record
InnerStepOverwrite(list, name, line) ==
    LET pos == Find(line, HeaderMarker)
        ipos == Find(line, InetMarker)
    IN  IF pos # npos
        THEN [list |-> IF Len(list) > 0
                       THEN [list EXCEPT ![Len(list)] = <<name, NoIp>>]
                       ELSE Append(list, <<name, NoIp>>),
              name |-> ExtractName(line, pos), pc |-> "inner"]
        ELSE IF ipos # npos
        THEN [list |-> Append(list, <<name, ExtractAddress(line, ipos)>>),
              name |-> <<>>, pc |-> "outer"]
        ELSE [list |-> list, name |-> name, pc |-> "inner"]

\* body of the inner while loop for one line
InnerStep(list, name, line) ==
    LET pos == Find(line, HeaderMarker)
        ipos == Find(line, InetMarker)
    IN  IF pos # npos
        THEN [list |-> Append(list, <<name, NoIp>>),
              name |-> ExtractName(line, pos), pc |-> "inner"]
        ELSE IF ipos # npos
        THEN [list |-> Append(list, <<name, ExtractAddress(line, ipos)>>),
              name |-> <<>>, pc |-> "outer"]
        ELSE [list |-> list, name |-> name, pc |-> "inner"]

\* if (interfaceName.length() > 0) emplace_back(interfaceName, "<no ip address>")
FinalizeList(list, name) ==
    IF Len(name) > 0 THEN Append(list, <<name, NoIp>>) ELSE list

(* ------------------------------ the driver ---------------------------- *)

\* programName after the find_last_of('/') strip
StripPath(path) ==
    LET lastSlash == FindLastOfSlash(path)
    IN  IF lastSlash # npos
        THEN Substr(path, lastSlash + 1, npos)
        ELSE path

\* IsHelpRequest with the first argument tested whatever the argument count
IsHelpRequestAnyCount(av) == Len(av) >= 2 /\ (av[2] = OptH \/ av[2] = OptHelp)

\* argc == 2 && (arg == "-h" || arg == "--help")
IsHelpRequest(av) == Len(av) = 2 /\ (av[2] = OptH \/ av[2] = OptHelp)

\* std::cin >> interfaceIndex for a size_t; uninit is the value the
\* variable held before (it is not initialised)
ReadSize(tok, uninit) ==
    IF tok.kind = "eof" THEN uninit
    ELSE IF tok.kind = "nan" THEN 0
    ELSE LET mag == IF tok.v < 0 THEN -tok.v ELSE tok.v
         IN  IF mag > SizeMax THEN SizeMax
             ELSE IF tok.v < 0 THEN SizeSub(0, mag) ELSE mag

\* the menu lines printed for the list
MenuLines(list) ==
    [i \in 1 .. Len(list) |-> <<"menu", i, list[i][1], list[i][2]>>]

\* the two result lines for the selected record
SelectionLines(entry) ==
    << <<"IFACE=", entry[1]>>,
       <<"IPADDR=", IF Len(entry[2]) = 0 THEN NoIp ELSE entry[2]>> >>

Init ==
    /\ pc = "start"
    /\ argv \in Argvs
    /\ programName = <<>>
    /\ pipe = "unopened"
    /\ input = <<>>
    /\ eof = FALSE
    /\ interfaceName = <<>>
    /\ interfaceList = <<>>
    /\ out = <<>>
    /\ err = <<>>
    /\ sel = NoSelection
    /\ exitStatus = -1

\* main up to the help check
Start ==
    /\ pc = "start"
    /\ programName' = StripPath(argv[1])
    /\ IF IsHelpRequest(argv)
       THEN /\ out' = Append(out, <<"usage", StripPath(argv[1])>>)
            /\ exitStatus' = 0
            /\ pc' = "exit"
       ELSE /\ pc' = "popen"
            /\ UNCHANGED <<out, exitStatus>>
    /\ UNCHANGED <<argv, pipe, input, eof, interfaceName, interfaceList, err, sel>>

\* popen("ip a", "r") and the check of the pipe
OpenPipe ==
    /\ pc = "popen"
    /\ \E ok \in BOOLEAN :
         IF ok
         THEN /\ pipe' = "open"
              /\ pc' = "outer"
              /\ UNCHANGED <<err, exitStatus>>
         ELSE /\ pipe' = "failed"
              /\ err' = Append(err, <<"pipe">>)
              /\ exitStatus' = 1
              /\ pc' = "exit"
    /\ UNCHANGED <<argv, programName, input, eof, interfaceName,
                   interfaceList, out, sel>>

\* one fgets of the outer loop and the loop body
OuterRead ==
    /\ pc = "outer"
    /\ \/ /\ ~eof
          /\ Len(input) < MaxLines
          /\ \E line \in Lines :
               LET r == OuterStep(interfaceList, interfaceName, line)
               IN  /\ input' = Append(input, line)
                   /\ interfaceList' = r.list
                   /\ interfaceName' = r.name
                   /\ pc' = r.pc
          /\ UNCHANGED eof
       \/ /\ eof' = TRUE
          /\ pc' = "finalize"
          /\ UNCHANGED <<input, interfaceList, interfaceName>>
    /\ UNCHANGED <<argv, programName, pipe, out, err, sel, exitStatus>>

\* one fgets of the inner loop and the loop body
InnerRead ==
    /\ pc = "inner"
    /\ \/ /\ Len(input) < MaxLines
          /\ \E line \in Lines :
               LET r == InnerStep(interfaceList, interfaceName, line)
               IN  /\ input' = Append(input, line)
                   /\ interfaceList' = r.list
                   /\ interfaceName' = r.name
                   /\ pc' = r.pc
          /\ UNCHANGED eof
       \/ /\ eof' = TRUE
          /\ pc' = "outer"
          /\ UNCHANGED <<input, interfaceList, interfaceName>>
    /\ UNCHANGED <<argv, programName, pipe, out, err, sel, exitStatus>>

\* the finalisation after the loops
Finalize ==
    /\ pc = "finalize"
    /\ interfaceList' = FinalizeList(interfaceList, interfaceName)
    /\ pc' = "menu"
    /\ UNCHANGED <<argv, programName, pipe, input, eof, interfaceName, out,
                   err, sel, exitStatus>>

\* the menu and the prompt
PrintMenu ==
    /\ pc = "menu"
    /\ out' = out \o <<<<"title">>>> \o MenuLines(interfaceList)
                  \o <<<<"prompt">>>>
    /\ pc' = "select"
    /\ UNCHANGED <<argv, programName, pipe, input, eof, interfaceName,
                   interfaceList, err, sel, exitStatus>>

\* the read of the selection, the range check and the result
Select ==
    /\ pc = "select"
    /\ \E tok \in Selections :
       \E uninit \in (IF tok.kind = "eof" THEN 0 .. SizeMax ELSE {0}) :
         LET interfaceIndex == SizeSub(ReadSize(tok, uninit), 1)
         IN  /\ sel' = tok
             /\ IF interfaceIndex >= Len(interfaceList)
                THEN /\ err' = Append(err, <<"index">>)
                     /\ exitStatus' = 1
                     /\ UNCHANGED out
                ELSE /\ out' = out \o SelectionLines(interfaceList[interfaceIndex + 1])
                     /\ exitStatus' = 0
                     /\ UNCHANGED err
    /\ pc' = "exit"
    /\ UNCHANGED <<argv, programName, pipe, input, eof, interfaceName,
                   interfaceList>>

Next ==
    \/ Start
    \/ OpenPipe
    \/ OuterRead
    \/ InnerRead
    \/ Finalize
    \/ PrintMenu
    \/ Select

Spec == Init /\ [][Next]_vars

FairSpec == Spec /\ WF_vars(Next)

(* ------------------- the input, read declaratively -------------------- *)

\* the line contains ": <"
IsHeader(l) ==
    \E i \in 1 .. (Len(l) - 2) : l[i] = ":" /\ l[i + 1] = " " /\ l[i + 2] = "<"

\* the line contains "inet "
HasInet(l) ==
    \E i \in 1 .. (Len(l) - 4) : SubSeq(l, i, i + 4) = InetMarker

\* an address line: a non-header line containing "inet "
IsAddrLine(l) == ~IsHeader(l) /\ HasInet(l)

HeaderPositions(in) == { i \in 1 .. Len(in) : IsHeader(in[i]) }

NumHeaders(in) == Cardinality(HeaderPositions(in))

\* the index in the input of the n-th header line
NthHeader(in, n) ==
    CHOOSE i \in HeaderPositions(in) :
        Cardinality({ j \in HeaderPositions(in) : j <= i }) = n

\* the least element of a non-empty set of numbers
Least(S) == CHOOSE i \in S : \A j \in S : i <= j

\* the lines after the n-th header and before the next header or the end
BlockOf(in, n) ==
    LET h == NthHeader(in, n)
        later == { k \in HeaderPositions(in) : k > h }
    IN  (h + 1) .. (IF later = {} THEN Len(in) ELSE Least(later) - 1)

AddrLinesOf(in, n) == { j \in BlockOf(in, n) : IsAddrLine(in[j]) }

FirstAddrLine(in, n) == Least(AddrLinesOf(in, n))

\* a is the text between the first "inet " of l and the next "/" (the rest
\* of the line when no "/" follows)
IsAddressOf(a, l) ==
    \E p \in 1 .. (Len(l) - 4) :
        /\ SubSeq(l, p, p + 4) = InetMarker
        /\ \A q \in 1 .. (p - 1) : SubSeq(l, q, q + 4) # InetMarker
        /\ LET rest == SubSeq(l, p + 5, Len(l))
           IN  IF \E k \in 1 .. Len(rest) : rest[k] = "/"
               THEN /\ Len(a) < Len(rest)
                    /\ SubSeq(rest, 1, Len(a)) = a
                    /\ rest[Len(a) + 1] = "/"
                    /\ \A k \in 1 .. Len(a) : a[k] # "/"
               ELSE a = rest

\* the parse loop and the finalisation after it are over
ParseFinished == pc \in {"menu", "select"} \/ (pc = "exit" /\ eof)

\* the selection has been read and the program has ended
Selected == pc = "exit" /\ sel # NoSelection

\* out holds a line of the given kind
Printed(kind) == \E i \in 1 .. Len(out) : out[i][1] = kind

IsPrefix(s, t) == Len(s) <= Len(t) /\ SubSeq(t, 1, Len(s)) = s

(* ------------------------------ claims -------------------------------- *)

\* C1: when the parse has finished, the record list has exactly as many
\* entries as the input has lines containing ": <".
C1_OneRecordPerHeader ==
    ParseFinished => Len(interfaceList) = NumHeaders(input)

\* C2: when the parse has finished, the name of the n-th record is the name
\* extracted from the n-th header line of the input, for every record.
C2_NamesInHeaderOrder ==
    ParseFinished =>
        \A n \in 1 .. Len(interfaceList) :
            /\ n <= NumHeaders(input)
            /\ LET h == input[NthHeader(input, n)]
               IN  interfaceList[n][1] = ExtractName(h, Find(h, HeaderMarker))

C2_Witness ==
    /\ ParseFinished
    /\ Len(interfaceList) = 3
    /\ interfaceList[1][1] # interfaceList[2][1]
    /\ interfaceList[2][1] # interfaceList[3][1]

\* C3: in every state, an interface whose block holds an address line has
\* its record, the record carries the address of the first address line of
\* the block, and later address lines add no record (there are never more
\* records than headers).
C3_FirstAddressWins ==
    /\ Len(interfaceList) <= NumHeaders(input)
    /\ \A n \in 1 .. NumHeaders(input) :
         AddrLinesOf(input, n) # {} =>
            /\ n <= Len(interfaceList)
            /\ IsAddressOf(interfaceList[n][2], input[FirstAddrLine(input, n)])

C3_Witness ==
    /\ ParseFinished
    /\ NumHeaders(input) = 1
    /\ Cardinality(AddrLinesOf(input, 1)) = 2
    /\ input[2] # input[3]
    /\ Len(interfaceList) = 1
    /\ IsAddressOf(interfaceList[1][2], input[2])

\* C4: when the parse has finished, every interface whose block holds no
\* address line has a record, and its address is "<no ip address>".
C4_SentinelWithoutAddress ==
    ParseFinished =>
        \A n \in 1 .. NumHeaders(input) :
            AddrLinesOf(input, n) = {} =>
                /\ n <= Len(interfaceList)
                /\ interfaceList[n][2] = NoIp

\* C5: in every state, no record of the list has an empty name.
C5_NoEmptyName ==
    \A n \in 1 .. Len(interfaceList) : Len(interfaceList[n][1]) > 0

\* the selection is non-numeric, zero, negative or greater than N
InvalidSelection ==
    \/ sel.kind = "nan"
    \/ sel.kind = "num" /\ (sel.v <= 0 \/ sel.v > Len(interfaceList))

\* the selection is a k with 1 <= k <= N
ValidSelection ==
    sel.kind = "num" /\ sel.v >= 1 /\ sel.v <= Len(interfaceList)

\* C6: a non-numeric, zero, negative or too large selection ends the
\* program with status 1 and an error, and no IFACE= or IPADDR= line
\* is printed.
C6_InvalidSelectionRejected ==
    (Selected /\ InvalidSelection) =>
        /\ exitStatus = 1
        /\ Len(err) > 0
        /\ ~Printed("IFACE=")
        /\ ~Printed("IPADDR=")

\* C7: a selection k in 1..N prints IFACE= and IPADDR= of the k-th record
\* as the last two lines, in that order, and ends with status 0; status 0
\* after the prompt is reached only by such a selection.
C7_ValidSelectionPrinted ==
    Selected =>
        /\ ValidSelection =>
              /\ exitStatus = 0
              /\ Len(out) >= 2
              /\ out[Len(out) - 1] = <<"IFACE=", interfaceList[sel.v][1]>>
              /\ out[Len(out)] =
                    <<"IPADDR=",
                      IF interfaceList[sel.v][2] = <<>>
                      THEN NoIp ELSE interfaceList[sel.v][2]>>
        /\ exitStatus = 0 => ValidSelection

\* exactly one argument, and it is -h or --help
SingleHelpArgument ==
    Len(argv) = 2 /\ argv[2] \in {OptH, OptHelp}

\* C8: past the help check, a single -h/--help argument has printed the
\* usage text and ended with status 0 with the listing command never
\* opened, no menu and no prompt; any other invocation goes on to open the
\* listing command and, unless that fails, ends only after the menu, the
\* prompt and the selection.
C8_HelpOnlyForSingleArgument ==
    pc # "start" =>
        IF SingleHelpArgument
        THEN /\ pc = "exit"
             /\ exitStatus = 0
             /\ out = << <<"usage", programName>> >>
             /\ pipe = "unopened"
             /\ input = <<>>
             /\ ~Printed("title")
             /\ ~Printed("prompt")
             /\ sel = NoSelection
        ELSE /\ ~Printed("usage")
             /\ pc = "popen" \/ pipe # "unopened"
             /\ pc = "exit" =>
                   \/ pipe = "failed" /\ exitStatus = 1
                   \/ Printed("title") /\ Printed("prompt") /\ sel # NoSelection

C8_Witness ==
    /\ pc = "exit"
    /\ argv = <<ProgPath, OptHelp>>
    /\ out = << <<"usage", ProgBare>> >>
    /\ exitStatus = 0

\* C9: across every step, the record list before the step is a prefix of
\* the record list after it, and at most one record longer.
C9_AppendOnly ==
    [][/\ IsPrefix(interfaceList, interfaceList')
       /\ Len(interfaceList') <= Len(interfaceList) + 1]_vars

C9_Witness ==
    /\ pc = "outer"
    /\ Len(input) = 3
    /\ Len(interfaceList) = 2
    /\ interfaceList[1][2] = NoIp
    /\ interfaceList[2][2] # NoIp

\* the step consumes one line
ConsumesLine == Len(input') = Len(input) + 1

\* the line a step consumes
ConsumedLine == input'[Len(input')]

\* the step consumes a line with neither marker, or an address line while
\* scanning for the next header
SkipStep ==
    /\ ConsumesLine
    /\ \/ ~IsHeader(ConsumedLine) /\ ~HasInet(ConsumedLine)
       \/ IsAddrLine(ConsumedLine) /\ pc = "outer"

\* C10: a step that consumes a line with neither marker, or an address line
\* while no interface is being scanned, leaves the record list and the held
\* name unchanged, reports no error and stays in the same loop; and a parse
\* that has started runs to its end-of-input step.
C10_SkippedLinesChangeNothing ==
    /\ [][SkipStep =>
            /\ interfaceList' = interfaceList
            /\ interfaceName' = interfaceName
            /\ pc' = pc
            /\ err' = err
            /\ exitStatus' = exitStatus]_vars
    /\ (pc \in {"outer", "inner"}) ~> ParseFinished

C10_Witness ==
    /\ ParseFinished
    /\ Len(input) = 3
    /\ IsHeader(input[1])
    /\ IsAddrLine(input[2])
    /\ IsAddrLine(input[3])
    /\ Len(interfaceList) = 1

TypeOK ==
    /\ pc \in {"start", "popen", "outer", "inner", "finalize", "menu", "select", "exit"}
    /\ Len(input) <= MaxLines
    /\ Len(interfaceList) <= Len(input)
    /\ pipe \in {"unopened", "open", "failed"}
    /\ exitStatus \in {-1, 0, 1}

====
